---- MODULE Spec2Model ----
(***************************************************************************)
(* Model of pypiserver's cache layer (pypiserver/cache.py) and of the      *)
(* offline index builder (pypiserver/scripts/generate_index_cache.py).     *)
(*                                                                         *)
(* One manager object of class CacheFileManager (which inherits            *)
(* CacheManager) lives at a time; Construct models a fresh process         *)
(* building a new one.  A string path is a sequence of components, so that *)
(* os.path.dirname and "lies under" are computed, not tabulated.  A root   *)
(* argument is a record [form, path]: callers pass either a str or a       *)
(* pathlib.Path, and a dict distinguishes the two as keys.                 *)
(***************************************************************************)
EXTENDS Integers, Sequences, FiniteSets, TLC

(***************************************************************************)
(* Bounds of the model.                                                    *)
(***************************************************************************)
\* number of API calls and event dispatches explored on a serving manager
MaxOps == 3

\* number of builder steps and restarts explored
MaxBuilderOps == 5

\* number of method calls the request threads start between them
MaxCalls == 2

\* number of filesystem changes made while they run
MaxChanges == 1

\* directories that callers use as roots (the second lies under the first)
Dirs == { <<"p">>, <<"p", "s">> }

\* files whose digests are requested and for which events arrive
FilePaths == { <<"p", "a">>, <<"p", "s", "b">>, <<"p", "s", "c">> }

Algos == { "md5", "sha256" }

Digests == { "d1", "d2" }

\* iterables a listing producer can yield (order matters)
Listings == { <<"A", "B">>, <<"B", "A">> }

Forms == { "str", "Path" }

EventTypes == { "created", "modified", "deleted", "moved" }

\* the one snapshot file name used by the builder and the server
IndexPath == "pkg_index_cache.pickle"

NoPath == "None"

(***************************************************************************)
(* Pure helpers.                                                           *)
(***************************************************************************)
\* os.path.dirname on a string path
dirname(fpath) == SubSeq(fpath, 1, Len(fpath) - 1)

\* path lies in the subtree of root (watches are recursive)
Under(path, root) ==
    /\ Len(path) > Len(root)
    /\ SubSeq(path, 1, Len(root)) = root

\* a root argument as the caller passes it
RootArgs == [form : Forms, path : Dirs]

\* str(root)
Str(root) == [form |-> "str", path |-> root.path]

\* the str key of a string path
StrKey(p) == [form |-> "str", path |-> p]

\* list(iterable)
ListOf(it) == [i \in 1..Len(it) |-> it[i]]

\* dict operations
EmptyDict == [k \in {} |-> <<>>]

Has(d, k) == k \in DOMAIN d

Put(d, k, v) == [x \in (DOMAIN d) \cup {k} |-> IF x = k THEN v ELSE d[x]]

Pop(d, k) == [x \in (DOMAIN d) \ {k} |-> d[x]]

\* what a call hands back to its caller
RetNone == [kind |-> "none", list |-> <<>>, str |-> ""]

RetList(v) == [kind |-> "list", list |-> v, str |-> ""]

RetStr(s) == [kind |-> "str", list |-> <<>>, str |-> s]

\* the literal {} returned by CacheFileManager.listdir on a miss
RetEmptyDict == [kind |-> "dict", list |-> <<>>, str |-> ""]

Raised == [kind |-> "raise", list |-> <<>>, str |-> ""]

(***************************************************************************)
(* pickle: the file holds the dict's items; loading rebuilds the dict.     *)
(***************************************************************************)
PickleDump(d) == { <<k, d[k]>> : k \in DOMAIN d }

PickleLoad(items) ==
    [k \in { it[1] : it \in items } |->
        (CHOOSE it \in items : it[1] = k)[2]]

NoFile == [exists |-> FALSE, ok |-> FALSE, items |-> {}]

CorruptFile == [exists |-> TRUE, ok |-> FALSE, items |-> {}]

FileOf(d) == [exists |-> TRUE, ok |-> TRUE, items |-> PickleDump(d)]

(***************************************************************************)
(* State.                                                                  *)
(***************************************************************************)
VARIABLES
    listdir_cache,     \* self.listdir_cache: dict, root key -> list of entries
    digest_cache,      \* self.digest_cache: dict, algo -> dict, fpath -> digest
    watched,           \* self.watched: set of root strings
    scheduled,         \* observer subscriptions: root string -> number of handlers
    using_index_file,  \* self.using_index_file (frozen mode)
    pkg_index_file,    \* self.pkg_index_file
    disk,              \* the snapshot file on disk
    ENABLE_CACHING,    \* module flag: the watchdog import succeeded
    attrs,             \* instance attributes the constructor has created
    ops,               \* number of calls made so far
    last,              \* the most recent call and its arguments
    pre,               \* the cache state that call started from
    invoked,           \* how often that call invoked its producer
    ret                \* what that call returned

\* threads inside the manager's methods
VARIABLES
    pc,                \* per thread: the statement it executes next
    frame,             \* per thread: the running method, its locals, and how
                       \* often the item's producer had run when it began
    listdir_lock,      \* self.listdir_lock: the thread holding it, or Free
    digest_lock,       \* self.digest_lock
    watch_lock,        \* self.watch_lock
    pending,           \* per watch: events the observer has not dispatched yet
    fs,                \* the package files that exist on the filesystem
    calls,             \* method calls started by request threads
    changes,           \* filesystem changes made so far
    runs               \* per cached item: producer runs since it was last dropped

cache_state == <<listdir_cache, digest_cache, watched, scheduled>>

locks == <<listdir_lock, digest_lock, watch_lock>>

thread_state == <<pc, frame, listdir_lock, digest_lock, watch_lock, pending, fs,
                  calls, changes, runs>>

call_state == <<using_index_file, pkg_index_file, disk, ENABLE_CACHING, attrs,
                ops, last, pre, invoked, ret>>

file_state == <<using_index_file, pkg_index_file, disk>>

vars == <<listdir_cache, digest_cache, watched, scheduled, using_index_file,
          pkg_index_file, disk, ENABLE_CACHING, attrs, ops, last, pre, invoked, ret,
          pc, frame, listdir_lock, digest_lock, watch_lock, pending, fs,
          calls, changes, runs>>

\* filesystem events as the observer reports them
Events ==
    { [event_type |-> ty, is_directory |-> isd, src_path |-> s, dest_path |-> <<>>] :
        ty \in EventTypes \ {"moved"}, isd \in BOOLEAN, s \in FilePaths }
    \cup
    { e \in [event_type : {"moved"}, is_directory : BOOLEAN,
             src_path : FilePaths, dest_path : FilePaths] :
        e.src_path # e.dest_path }

NoRoot == [form |-> "none", path |-> <<>>]

NoEvent == [event_type |-> "none", is_directory |-> FALSE,
            src_path |-> <<>>, dest_path |-> <<>>]

NoOutcome == [ok |-> FALSE, list |-> <<>>, str |-> ""]

\* a call and its arguments; algo also carries the file name given to a constructor
Call(op, root, fpath, algo, ev, out) ==
    [op |-> op, root |-> root, fpath |-> fpath, algo |-> algo, ev |-> ev, out |-> out]

CacheNow ==
    [listdir_cache |-> listdir_cache, digest_cache |-> digest_cache,
     watched |-> watched]

\* bookkeeping shared by every action: count the call and remember it; a
\* call taken as one step runs with no other thread inside the manager
Note(call) ==
    /\ ops' = ops + 1
    /\ last' = call
    /\ pre' = CacheNow
    /\ UNCHANGED thread_state

\* the attributes CacheManager.__init__ assigns, in order
ManagerAttrs ==
    { "listdir_cache", "digest_cache", "observer", "watched",
      "watch_lock", "digest_lock", "listdir_lock" }

\* a constructor that builds its caches before it tests the flag
ManagerInit_CheckLast(enabled) ==
    IF enabled THEN ManagerAttrs ELSE { "listdir_cache", "digest_cache" }

\* CacheManager.__init__: the attributes that exist when it ends or raises
ManagerInit(enabled) ==
    IF enabled THEN ManagerAttrs ELSE {}

\* a constructor that raised hands no object to its caller
Ready == attrs = ManagerAttrs

\* a method call on the constructed manager
ApiCall(call) ==
    /\ Ready
    /\ Note(call)
    /\ UNCHANGED <<ENABLE_CACHING, attrs>>

(***************************************************************************)
(* Threads.                                                                *)
(***************************************************************************)
\* the server's request threads
RequestThreads == { "t1", "t2" }

\* the observer thread that calls _EventHandler.dispatch
EventThread == "observer"

Threads == RequestThreads \cup { EventThread }

\* a threading.Lock nobody holds
Free == "free"

\* the package files present when the manager is constructed
InitFiles == { <<"p", "a">>, <<"p", "s", "b">> }

\* a thread outside every method
NoFrame ==
    [op |-> "none", root |-> NoRoot, fpath |-> <<>>, algo |-> "",
     ev |-> NoEvent, v |-> NoOutcome, seen |-> 0]

\* what the two caches hold: a listing per root, a digest per algorithm and path
Jobs ==
    { [kind |-> "listdir", algo |-> "", path |-> d] : d \in Dirs }
    \cup
    { [kind |-> "digest_file", algo |-> a, path |-> f] : a \in Algos, f \in FilePaths }

ListJob(path) == [kind |-> "listdir", algo |-> "", path |-> path]

DigestJob(algo, path) == [kind |-> "digest_file", algo |-> algo, path |-> path]

NoRuns == [made |-> 0, good |-> 0]

\* no thread has entered the manager yet
ThreadsInit ==
    /\ pc = [t \in Threads |-> "idle"]
    /\ frame = [t \in Threads |-> NoFrame]
    /\ listdir_lock = Free
    /\ digest_lock = Free
    /\ watch_lock = Free
    /\ pending = [r \in Dirs |-> <<>>]
    /\ fs = InitFiles
    /\ calls = 0
    /\ changes = 0
    /\ runs = [j \in Jobs |-> NoRuns]

(***************************************************************************)
(* Construction.                                                           *)
(***************************************************************************)
\* a constructor that re-keys the loaded map by str(root)
Constructed_StrKeys(arg, d) ==
    LET loaded == arg # NoPath /\ d.exists /\ d.ok
        m      == PickleLoad(d.items)
    IN  [ listdir_cache    |-> IF loaded
                               THEN [k \in { Str(x) : x \in DOMAIN m } |->
                                       m[CHOOSE x \in DOMAIN m : Str(x) = k]]
                               ELSE EmptyDict,
          digest_cache     |-> EmptyDict,
          watched          |-> {},
          scheduled        |-> [r \in Dirs |-> 0],
          using_index_file |-> loaded,
          pkg_index_file   |-> IF loaded THEN arg ELSE NoPath ]

\* a constructor that sets using_index_file before the load can fail
Constructed_FlagFirst(arg, d) ==
    LET found  == arg # NoPath /\ d.exists
        loaded == found /\ d.ok
    IN  [ listdir_cache    |-> IF loaded THEN PickleLoad(d.items) ELSE EmptyDict,
          digest_cache     |-> EmptyDict,
          watched          |-> {},
          scheduled        |-> [r \in Dirs |-> 0],
          using_index_file |-> found,
          pkg_index_file   |-> IF found THEN arg ELSE NoPath ]

\* CacheManager.__init__ followed by CacheFileManager.__init__ on file d
Constructed(arg, d) ==
    LET loaded == arg # NoPath /\ d.exists /\ d.ok
    IN  [ listdir_cache    |-> IF loaded THEN PickleLoad(d.items) ELSE EmptyDict,
          digest_cache     |-> EmptyDict,
          watched          |-> {},
          scheduled        |-> [r \in Dirs |-> 0],
          using_index_file |-> loaded,
          pkg_index_file   |-> IF loaded THEN arg ELSE NoPath ]

\* listing maps an earlier builder run can have left in the snapshot file
Snapshots ==
    { EmptyDict,
      Put(EmptyDict, [form |-> "str", path |-> <<"p">>], <<"A", "B">>),
      Put(Put(EmptyDict, [form |-> "Path", path |-> <<"p">>], <<"B", "A">>),
          [form |-> "str", path |-> <<"p", "s">>], <<"A", "B">>) }

InitDisks == { NoFile, CorruptFile } \cup { FileOf(M) : M \in Snapshots }

\* the manager after a constructor call under the flag: when the base
\* constructor raises, the subclass body never runs
Built(enabled, arg, d) ==
    IF enabled THEN Constructed(arg, d) ELSE Constructed(NoPath, NoFile)

Init ==
    \E enabled \in BOOLEAN, arg \in { NoPath, IndexPath }, d \in InitDisks :
        LET m == Built(enabled, arg, d)
        IN  /\ ENABLE_CACHING = enabled
            /\ attrs = ManagerInit(enabled)
            /\ listdir_cache = m.listdir_cache
            /\ digest_cache = m.digest_cache
            /\ watched = m.watched
            /\ scheduled = m.scheduled
            /\ using_index_file = m.using_index_file
            /\ pkg_index_file = m.pkg_index_file
            /\ disk = d
            /\ ops = 0
            /\ last = Call("init", NoRoot, <<>>, arg, NoEvent, NoOutcome)
            /\ pre = [listdir_cache |-> EmptyDict, digest_cache |-> EmptyDict,
                      watched |-> {}]
            /\ invoked = 0
            /\ ret = IF enabled THEN RetNone ELSE Raised
            /\ ThreadsInit

\* a fresh process constructs a new manager
Construct(arg) ==
    LET m == Built(ENABLE_CACHING, arg, disk)
    IN  /\ Note(Call("construct", NoRoot, <<>>, arg, NoEvent, NoOutcome))
        /\ attrs' = ManagerInit(ENABLE_CACHING)
        /\ UNCHANGED ENABLE_CACHING
        /\ listdir_cache' = m.listdir_cache
        /\ digest_cache' = m.digest_cache
        /\ watched' = m.watched
        /\ scheduled' = m.scheduled
        /\ using_index_file' = m.using_index_file
        /\ pkg_index_file' = m.pkg_index_file
        /\ invoked' = 0
        /\ ret' = IF ENABLE_CACHING THEN RetNone ELSE Raised
        /\ UNCHANGED disk

(***************************************************************************)
(* CacheManager.                                                           *)
(***************************************************************************)
\* a _watch that schedules the handler and forgets self.watched.add(root)
Watch_ScheduleOnly(root) ==
    /\ UNCHANGED watched
    /\ scheduled' = [scheduled EXCEPT ![root] = @ + 1]

\* CacheManager._watch
Watch(root) ==
    /\ watched' = watched \cup {root}
    /\ scheduled' = [scheduled EXCEPT ![root] = @ + 1]

\* "if root not in self.watched: self._watch(root)" under watch_lock
EnsureWatch(root) ==
    IF root \notin watched
    THEN Watch(root)
    ELSE UNCHANGED <<watched, scheduled>>

\* CacheManager.listdir that caches an empty listing when the producer fails
ListdirLive_CacheFailure(root, out) ==
    LET key == Str(root)
        v   == IF out.ok THEN ListOf(out.list) ELSE <<>>
    IN  IF Has(listdir_cache, key)
        THEN /\ ret' = RetList(listdir_cache[key])
             /\ invoked' = 0
             /\ UNCHANGED <<listdir_cache, watched, scheduled>>
        ELSE /\ EnsureWatch(key.path)
             /\ invoked' = 1
             /\ listdir_cache' = Put(listdir_cache, key, v)
             /\ ret' = IF out.ok THEN RetList(v) ELSE Raised

\* CacheManager.listdir that forgets line 86, the store
ListdirLive_NoStore(root, out) ==
    LET key == Str(root)
    IN  IF Has(listdir_cache, key)
        THEN /\ ret' = RetList(listdir_cache[key])
             /\ invoked' = 0
             /\ UNCHANGED <<listdir_cache, watched, scheduled>>
        ELSE /\ EnsureWatch(key.path)
             /\ invoked' = 1
             /\ ret' = IF out.ok THEN RetList(ListOf(out.list)) ELSE Raised
             /\ UNCHANGED listdir_cache

\* CacheManager.listdir
ListdirLive(root, out) ==
    LET key == Str(root)
    IN  IF Has(listdir_cache, key)
        THEN /\ ret' = RetList(listdir_cache[key])
             /\ invoked' = 0
             /\ UNCHANGED <<listdir_cache, watched, scheduled>>
        ELSE /\ EnsureWatch(key.path)
             /\ invoked' = 1
             /\ IF out.ok
                THEN /\ listdir_cache' = Put(listdir_cache, key, ListOf(out.list))
                     /\ ret' = RetList(ListOf(out.list))
                ELSE /\ ret' = Raised
                     /\ UNCHANGED listdir_cache

\* CacheFileManager.listdir, frozen branch
ListdirFrozen(root) ==
    /\ ret' = IF Has(listdir_cache, root)
              THEN RetList(listdir_cache[root])
              ELSE RetEmptyDict
    /\ invoked' = 0
    /\ UNCHANGED <<listdir_cache, watched, scheduled>>

\* CacheFileManager.listdir without the using_index_file test
Listdir_AlwaysLive(root, out) ==
    /\ ApiCall(Call("listdir", root, <<>>, "", NoEvent, out))
    /\ ListdirLive(root, out)
    /\ UNCHANGED <<digest_cache, file_state>>

\* CacheFileManager.listdir
Listdir(root, out) ==
    /\ ApiCall(Call("listdir", root, <<>>, "", NoEvent, out))
    /\ IF ~using_index_file
       THEN ListdirLive(root, out)
       ELSE ListdirFrozen(root)
    /\ UNCHANGED <<digest_cache, file_state>>

\* CacheManager.digest_file that never registers the watch
DigestFile_NoWatch(fpath, algo, out) ==
    LET dc    == IF Has(digest_cache, algo)
                 THEN digest_cache
                 ELSE Put(digest_cache, algo, EmptyDict)
        cache == dc[algo]
    IN  /\ ApiCall(Call("digest_file", NoRoot, fpath, algo, NoEvent, out))
        /\ IF Has(cache, fpath)
           THEN /\ ret' = RetStr(cache[fpath])
                /\ invoked' = 0
                /\ digest_cache' = dc
           ELSE /\ invoked' = 1
                /\ IF out.ok
                   THEN /\ digest_cache' = Put(dc, algo, Put(cache, fpath, out.str))
                        /\ ret' = RetStr(out.str)
                   ELSE /\ digest_cache' = dc
                        /\ ret' = Raised
        /\ UNCHANGED <<listdir_cache, watched, scheduled, file_state>>

\* CacheManager.digest_file
DigestFile(fpath, algo, out) ==
    LET dc    == IF Has(digest_cache, algo)
                 THEN digest_cache
                 ELSE Put(digest_cache, algo, EmptyDict)
        cache == dc[algo]
    IN  /\ ApiCall(Call("digest_file", NoRoot, fpath, algo, NoEvent, out))
        /\ IF Has(cache, fpath)
           THEN /\ ret' = RetStr(cache[fpath])
                /\ invoked' = 0
                /\ digest_cache' = dc
                /\ UNCHANGED <<watched, scheduled>>
           ELSE /\ EnsureWatch(dirname(fpath))
                /\ invoked' = 1
                /\ IF out.ok
                   THEN /\ digest_cache' = Put(dc, algo, Put(cache, fpath, out.str))
                        /\ ret' = RetStr(out.str)
                   ELSE /\ digest_cache' = dc
                        /\ ret' = Raised
        /\ UNCHANGED <<listdir_cache, file_state>>

\* an invalidation that clears the whole listing map
PopRoot_Clear(cache, root) == EmptyDict

\* the body of CacheManager.invalidate_root_cache
PopRoot(cache, root) == Pop(cache, Str(root))

\* CacheManager.invalidate_root_cache called directly
InvalidateRootCache(root) ==
    /\ ApiCall(Call("invalidate_root_cache", root, <<>>, "", NoEvent, NoOutcome))
    /\ listdir_cache' = PopRoot(listdir_cache, root)
    /\ invoked' = 0
    /\ ret' = RetNone
    /\ UNCHANGED <<digest_cache, watched, scheduled, file_state>>

(***************************************************************************)
(* CacheFileManager.                                                       *)
(***************************************************************************)
\* CacheFileManager.force_update_listdir_cache
ForceUpdate(root, out) ==
    /\ ApiCall(Call("force_update_listdir_cache", root, <<>>, "", NoEvent, out))
    /\ invoked' = 1
    /\ IF out.ok
       THEN /\ listdir_cache' = Put(listdir_cache, root, ListOf(out.list))
            /\ ret' = RetList(ListOf(out.list))
       ELSE /\ ret' = Raised
            /\ UNCHANGED listdir_cache
    /\ UNCHANGED <<digest_cache, watched, scheduled, file_state>>

\* the builder's "cache_manager.pkg_index_file = PKG_INDEX_FILE"
SetIndexFile ==
    /\ ApiCall(Call("set_index_file", NoRoot, <<>>, "", NoEvent, NoOutcome))
    /\ pkg_index_file' = IndexPath
    /\ invoked' = 0
    /\ ret' = RetNone
    /\ UNCHANGED <<cache_state, using_index_file, disk>>

\* CacheFileManager.serialize_listdir_cache; io_ok: the write goes through
Serialize(io_ok) ==
    /\ ApiCall(Call("serialize_listdir_cache", NoRoot, <<>>, "", NoEvent, NoOutcome))
    /\ invoked' = 0
    /\ IF pkg_index_file = NoPath
       THEN /\ ret' = Raised
            /\ UNCHANGED disk
       ELSE IF io_ok
            THEN /\ disk' = FileOf(listdir_cache)
                 /\ ret' = RetNone
            ELSE /\ disk' = CorruptFile
                 /\ ret' = Raised
    /\ UNCHANGED <<cache_state, using_index_file, pkg_index_file>>

(***************************************************************************)
(* _EventHandler.                                                          *)
(***************************************************************************)
\* a handler that forgets the destination of a move
EventPaths_SrcOnly(ev) == { ev.src_path }

\* the paths whose digests an event invalidates
EventPaths(ev) ==
    IF ev.event_type = "moved"
    THEN { ev.src_path, ev.dest_path }
    ELSE { ev.src_path }

\* "for path in paths: subcache.pop(path, None)"
PopPaths(subcache, paths) ==
    [p \in (DOMAIN subcache) \ paths |-> subcache[p]]

\* a handler that prunes digests but forgets the listing of its root
Dispatch_DigestsOnly(hroot, ev) ==
    /\ scheduled[hroot] > 0
    /\ \E p \in EventPaths(ev) : Under(p, hroot)
    /\ ApiCall(Call("dispatch", StrKey(hroot), <<>>, "", ev, NoOutcome))
    /\ invoked' = 0
    /\ ret' = RetNone
    /\ IF ev.is_directory
       THEN UNCHANGED digest_cache
       ELSE digest_cache' =
                 [a \in DOMAIN digest_cache |->
                     PopPaths(digest_cache[a], EventPaths(ev))]
    /\ UNCHANGED <<listdir_cache, watched, scheduled, file_state>>

\* a handler without the is_directory test
Dispatch_NoDirCheck(hroot, ev) ==
    /\ scheduled[hroot] > 0
    /\ \E p \in EventPaths(ev) : Under(p, hroot)
    /\ ApiCall(Call("dispatch", StrKey(hroot), <<>>, "", ev, NoOutcome))
    /\ invoked' = 0
    /\ ret' = RetNone
    /\ listdir_cache' = PopRoot(listdir_cache, StrKey(hroot))
    /\ digest_cache' =
         [a \in DOMAIN digest_cache |->
             PopPaths(digest_cache[a], EventPaths(ev))]
    /\ UNCHANGED <<watched, scheduled, file_state>>

\* _EventHandler.dispatch of the handler scheduled for hroot
Dispatch(hroot, ev) ==
    /\ scheduled[hroot] > 0
    /\ \E p \in EventPaths(ev) : Under(p, hroot)
    /\ ApiCall(Call("dispatch", StrKey(hroot), <<>>, "", ev, NoOutcome))
    /\ invoked' = 0
    /\ ret' = RetNone
    /\ IF ev.is_directory
       THEN UNCHANGED <<listdir_cache, digest_cache>>
       ELSE /\ listdir_cache' = PopRoot(listdir_cache, StrKey(hroot))
            /\ digest_cache' =
                 [a \in DOMAIN digest_cache |->
                     PopPaths(digest_cache[a], EventPaths(ev))]
    /\ UNCHANGED <<watched, scheduled, file_state>>

(***************************************************************************)
(* The same methods statement by statement, for threads that interleave.   *)
(* A step of thread t is one statement or one lock operation.              *)
(***************************************************************************)
\* thread t moves to statement l
Goto(t, l) == pc' = [pc EXCEPT ![t] = l]

\* thread t leaves its method
Return(t) ==
    /\ pc' = [pc EXCEPT ![t] = "idle"]
    /\ frame' = [frame EXCEPT ![t] = NoFrame]

\* the pool hands a request to its first idle thread
PoolOrder == << "t1", "t2" >>

FirstIdle(t) ==
    \E i \in 1..Len(PoolOrder) :
        /\ PoolOrder[i] = t
        /\ pc[t] = "idle"
        /\ \A j \in 1..(i - 1) : pc[PoolOrder[j]] # "idle"

\* a request thread enters a method of the live manager
Enter(t, f, l) ==
    /\ t \in RequestThreads
    /\ FirstIdle(t)
    /\ Ready
    /\ calls' = calls + 1
    /\ frame' = [frame EXCEPT ![t] = f]
    /\ pc' = [pc EXCEPT ![t] = l]

\* the listing producer on the current filesystem: the files under root
FileOrder == << <<"p", "a">>, <<"p", "s", "b">>, <<"p", "s", "c">> >>

IsListed(files, root, f) == f \in files /\ Under(f, root)

ListingOf(files, root) ==
    LET keep(f) == IsListed(files, root, f)
    IN  SelectSeq(FileOrder, keep)

\* the producer ran once more for job j, and its result was stored if good
Ran(j, good) ==
    runs' = [runs EXCEPT ![j] = [made |-> @.made + 1,
                                 good |-> @.good + (IF good THEN 1 ELSE 0)]]

\* job j's cached value was dropped
Dropped(js) == runs' = [j \in Jobs |-> IF j \in js THEN NoRuns ELSE runs[j]]

\* the directory a miss subscribes to
WatchRoot(t) ==
    IF frame[t].op = "listdir"
    THEN frame[t].root.path
    ELSE dirname(frame[t].fpath)

\* the statement after the watch block: the producer call
Produce(t) == IF frame[t].op = "listdir" THEN "ld_produce" ELSE "df_produce"

\* a watch block that does not wait for watch_lock
WatchLock_NoWait(t) ==
    /\ pc[t] = "w_lock"
    /\ IF WatchRoot(t) \notin watched
       THEN watch_lock' = t /\ Goto(t, "w_add")
       ELSE UNCHANGED watch_lock /\ Goto(t, Produce(t))
    /\ UNCHANGED <<cache_state, call_state, frame, listdir_lock, digest_lock,
                   pending, fs, calls, changes, runs>>

\* "with self.watch_lock: if root not in self.watched:"; a root already
\* watched ends the block, the lock taken and given back
WatchLock(t) ==
    /\ pc[t] = "w_lock"
    /\ watch_lock = Free
    /\ IF WatchRoot(t) \notin watched
       THEN watch_lock' = t /\ Goto(t, "w_add")
       ELSE UNCHANGED watch_lock /\ Goto(t, Produce(t))
    /\ UNCHANGED <<cache_state, call_state, frame, listdir_lock, digest_lock,
                   pending, fs, calls, changes, runs>>

\* a watch block that is still open when the producer starts
WatchAdd_KeepLock(t) ==
    /\ pc[t] = "w_add"
    /\ Watch(WatchRoot(t))
    /\ Goto(t, Produce(t))
    /\ UNCHANGED <<listdir_cache, digest_cache, call_state, frame, locks,
                   pending, fs, calls, changes, runs>>

\* "self._watch(root)" and the end of the watch block
WatchAdd(t) ==
    /\ pc[t] = "w_add"
    /\ Watch(WatchRoot(t))
    /\ watch_lock' = Free
    /\ Goto(t, Produce(t))
    /\ UNCHANGED <<listdir_cache, digest_cache, call_state, frame, listdir_lock,
                   digest_lock, pending, fs, calls, changes, runs>>

\* CacheFileManager.listdir on a live manager: "root = str(root)"
ListdirCall(t, root) ==
    /\ ~using_index_file
    /\ Enter(t, [NoFrame EXCEPT !.op = "listdir", !.root = Str(root),
                                !.seen = runs[ListJob(root.path)].made], "ld_lock")
    /\ UNCHANGED <<cache_state, call_state, locks, pending, fs, changes, runs>>

\* a lookup that never finds the entry
ListdirLock_AlwaysMiss(t) ==
    /\ pc[t] = "ld_lock"
    /\ listdir_lock = Free
    /\ listdir_lock' = t
    /\ Goto(t, "w_lock")
    /\ UNCHANGED <<cache_state, call_state, frame, digest_lock, watch_lock,
                   pending, fs, calls, changes, runs>>

\* "with self.listdir_lock:" entered, then
\* "try: return self.listdir_cache[root] / except KeyError: pass"
ListdirLock(t) ==
    LET key == frame[t].root
    IN  /\ pc[t] = "ld_lock"
        /\ listdir_lock = Free
        /\ listdir_lock' = t
        /\ IF Has(listdir_cache, key)
           THEN /\ frame' = [frame EXCEPT ![t].v =
                               [ok |-> TRUE, list |-> listdir_cache[key], str |-> ""]]
                /\ Goto(t, "ld_unlock")
           ELSE /\ Goto(t, "w_lock")
                /\ UNCHANGED frame
        /\ UNCHANGED <<cache_state, call_state, digest_lock, watch_lock,
                       pending, fs, calls, changes, runs>>

\* a producer failure that leaves the method without unwinding the lock
ListdirProduce_Leak(t, ok) ==
    LET key == frame[t].root
        v   == ListingOf(fs, key.path)
    IN  /\ pc[t] = "ld_produce"
        /\ Ran(ListJob(key.path), ok)
        /\ IF ok
           THEN /\ listdir_cache' = Put(listdir_cache, key, v)
                /\ frame' = [frame EXCEPT ![t].v =
                               [ok |-> TRUE, list |-> v, str |-> ""]]
                /\ Goto(t, "ld_unlock")
           ELSE /\ Return(t)
                /\ UNCHANGED listdir_cache
        /\ UNCHANGED <<digest_cache, watched, scheduled, call_state, locks,
                       pending, fs, calls, changes>>

\* "v = list(impl_fn(Path(root))); self.listdir_cache[root] = v", or impl_fn raises
ListdirProduce(t, ok) ==
    LET key == frame[t].root
        v   == ListingOf(fs, key.path)
    IN  /\ pc[t] = "ld_produce"
        /\ Ran(ListJob(key.path), ok)
        /\ IF ok
           THEN /\ listdir_cache' = Put(listdir_cache, key, v)
                /\ frame' = [frame EXCEPT ![t].v =
                               [ok |-> TRUE, list |-> v, str |-> ""]]
           ELSE /\ frame' = [frame EXCEPT ![t].v = NoOutcome]
                /\ UNCHANGED listdir_cache
        /\ Goto(t, "ld_unlock")
        /\ UNCHANGED <<digest_cache, watched, scheduled, call_state, locks,
                       pending, fs, calls, changes>>

\* the with block of listdir is left, by return or by the producer's exception
ListdirUnlock(t) ==
    /\ pc[t] = "ld_unlock"
    /\ listdir_lock' = Free
    /\ Return(t)
    /\ UNCHANGED <<cache_state, call_state, digest_lock, watch_lock, pending,
                   fs, calls, changes, runs>>

\* the digest producer's result for a file it can read
Hashed(fpath) == [ok |-> TRUE, list |-> <<>>, str |-> "d1"]

\* CacheManager.digest_file entered
DigestCall(t, fpath, algo) ==
    /\ Enter(t, [NoFrame EXCEPT !.op = "digest_file", !.fpath = fpath,
                                !.algo = algo,
                                !.seen = runs[DigestJob(algo, fpath)].made], "df_lock")
    /\ UNCHANGED <<cache_state, call_state, locks, pending, fs, changes, runs>>

\* "with self.digest_lock:" entered, then
\* "cache = self.digest_cache.setdefault(hash_algo, {}); try: return cache[fpath]"
DigestLock(t) ==
    LET algo  == frame[t].algo
        fpath == frame[t].fpath
        dc    == IF Has(digest_cache, algo)
                 THEN digest_cache
                 ELSE Put(digest_cache, algo, EmptyDict)
    IN  /\ pc[t] = "df_lock"
        /\ digest_lock = Free
        /\ digest_lock' = t
        /\ digest_cache' = dc
        /\ IF Has(dc[algo], fpath)
           THEN /\ frame' = [frame EXCEPT ![t].v =
                               [ok |-> TRUE, list |-> <<>>, str |-> dc[algo][fpath]]]
                /\ Goto(t, "df_unlock")
           ELSE /\ Goto(t, "w_lock")
                /\ UNCHANGED frame
        /\ UNCHANGED <<listdir_cache, watched, scheduled, call_state,
                       listdir_lock, watch_lock, pending, fs, calls, changes, runs>>

\* "v = impl_fn(fpath, hash_algo); cache[fpath] = v", or impl_fn raises
DigestProduce(t, ok) ==
    LET algo  == frame[t].algo
        fpath == frame[t].fpath
        out   == IF ok THEN Hashed(fpath) ELSE NoOutcome
    IN  /\ pc[t] = "df_produce"
        /\ Ran(DigestJob(algo, fpath), ok)
        /\ frame' = [frame EXCEPT ![t].v = out]
        /\ IF ok
           THEN digest_cache' =
                    Put(digest_cache, algo, Put(digest_cache[algo], fpath, out.str))
           ELSE UNCHANGED digest_cache
        /\ Goto(t, "df_unlock")
        /\ UNCHANGED <<listdir_cache, watched, scheduled, call_state, locks,
                       pending, fs, calls, changes>>

\* the with block of digest_file is left
DigestUnlock(t) ==
    /\ pc[t] = "df_unlock"
    /\ digest_lock' = Free
    /\ Return(t)
    /\ UNCHANGED <<cache_state, call_state, listdir_lock, watch_lock, pending,
                   fs, calls, changes, runs>>

\* CacheManager.invalidate_root_cache entered by a request thread
InvalidateCall(t, root) ==
    /\ Enter(t, [NoFrame EXCEPT !.op = "invalidate_root_cache", !.root = Str(root)],
             "inv_lock")
    /\ UNCHANGED <<cache_state, call_state, locks, pending, fs, changes, runs>>

\* an invalidation that keeps listdir_lock when it returns
Invalidate_KeepLock(t) ==
    /\ pc[t] = "inv_lock"
    /\ listdir_lock = Free
    /\ listdir_cache' = PopRoot(listdir_cache, frame[t].root)
    /\ Dropped({ ListJob(frame[t].root.path) })
    /\ listdir_lock' = t
    /\ IF frame[t].op = "dispatch"
       THEN Goto(t, "dp_lock") /\ UNCHANGED frame
       ELSE Return(t)
    /\ UNCHANGED <<digest_cache, watched, scheduled, call_state, digest_lock,
                   watch_lock, pending, fs, calls, changes>>

\* "with self.listdir_lock: self.listdir_cache.pop(str(root), None)", the
\* lock taken and given back; the handler goes on to its digest loop, a
\* direct caller returns
Invalidate(t) ==
    /\ pc[t] = "inv_lock"
    /\ listdir_lock = Free
    /\ listdir_cache' = PopRoot(listdir_cache, frame[t].root)
    /\ Dropped({ ListJob(frame[t].root.path) })
    /\ UNCHANGED listdir_lock
    /\ IF frame[t].op = "dispatch"
       THEN Goto(t, "dp_lock") /\ UNCHANGED frame
       ELSE Return(t)
    /\ UNCHANGED <<digest_cache, watched, scheduled, call_state, digest_lock,
                   watch_lock, pending, fs, calls, changes>>

\* a handler that returns on "deleted" events as it does on directory events
DispatchTake_SkipDeleted(hroot) ==
    LET ev == Head(pending[hroot])
    IN  /\ pc[EventThread] = "idle"
        /\ pending[hroot] # <<>>
        /\ pending' = [pending EXCEPT ![hroot] = Tail(@)]
        /\ IF ev.is_directory \/ ev.event_type = "deleted"
           THEN UNCHANGED <<pc, frame>>
           ELSE /\ frame' = [frame EXCEPT ![EventThread] =
                               [NoFrame EXCEPT !.op = "dispatch",
                                               !.root = StrKey(hroot), !.ev = ev]]
                /\ Goto(EventThread, "inv_lock")
        /\ UNCHANGED <<cache_state, call_state, locks, fs, calls, changes, runs>>

\* the observer hands the next event of a watch to its handler:
\* "if event.is_directory: return", else invalidate_root_cache(self.root)
DispatchTake(hroot) ==
    LET ev == Head(pending[hroot])
    IN  /\ pc[EventThread] = "idle"
        /\ pending[hroot] # <<>>
        /\ pending' = [pending EXCEPT ![hroot] = Tail(@)]
        /\ IF ev.is_directory
           THEN UNCHANGED <<pc, frame>>
           ELSE /\ frame' = [frame EXCEPT ![EventThread] =
                               [NoFrame EXCEPT !.op = "dispatch",
                                               !.root = StrKey(hroot), !.ev = ev]]
                /\ Goto(EventThread, "inv_lock")
        /\ UNCHANGED <<cache_state, call_state, locks, fs, calls, changes, runs>>

\* "with cache.digest_lock: for subcache in ...: for path in paths:
\* subcache.pop(path, None)", the lock taken and given back
DispatchDigests(t) ==
    LET paths == EventPaths(frame[t].ev)
    IN  /\ pc[t] = "dp_lock"
        /\ digest_lock = Free
        /\ digest_cache' =
             [a \in DOMAIN digest_cache |-> PopPaths(digest_cache[a], paths)]
        /\ Dropped({ j \in Jobs : j.kind = "digest_file" /\ j.path \in paths })
        /\ Return(t)
        /\ UNCHANGED <<listdir_cache, watched, scheduled, call_state, locks,
                       pending, fs, calls, changes>>

\* CacheFileManager.force_update_listdir_cache entered
ForceCall(t, root) ==
    /\ Enter(t, [NoFrame EXCEPT !.op = "force_update_listdir_cache", !.root = root],
             "fu_lock")
    /\ UNCHANGED <<cache_state, call_state, locks, pending, fs, changes, runs>>

\* "with self.listdir_lock:" of force_update_listdir_cache entered
ForceLock(t) ==
    /\ pc[t] = "fu_lock"
    /\ listdir_lock = Free
    /\ listdir_lock' = t
    /\ Goto(t, "fu_produce")
    /\ UNCHANGED <<cache_state, call_state, frame, digest_lock, watch_lock,
                   pending, fs, calls, changes, runs>>

\* "v = list(impl_fn(Path(root))); self.listdir_cache[root] = v", or impl_fn raises
ForceProduce(t, ok) ==
    LET key == frame[t].root
        v   == ListingOf(fs, key.path)
    IN  /\ pc[t] = "fu_produce"
        /\ IF ok
           THEN /\ listdir_cache' = Put(listdir_cache, key, v)
                /\ frame' = [frame EXCEPT ![t].v =
                               [ok |-> TRUE, list |-> v, str |-> ""]]
           ELSE UNCHANGED <<listdir_cache, frame>>
        /\ Goto(t, "fu_unlock")
        /\ UNCHANGED <<digest_cache, watched, scheduled, call_state, locks,
                       pending, fs, calls, changes, runs>>

\* the with block of force_update_listdir_cache is left
ForceUnlock(t) ==
    /\ pc[t] = "fu_unlock"
    /\ listdir_lock' = Free
    /\ Return(t)
    /\ UNCHANGED <<cache_state, call_state, digest_lock, watch_lock, pending,
                   fs, calls, changes, runs>>

\* the files after the change an event reports
Apply(files, ev) ==
    IF ev.is_directory \/ ev.event_type = "modified" THEN files
    ELSE IF ev.event_type = "created" THEN files \cup { ev.src_path }
    ELSE IF ev.event_type = "deleted" THEN files \ { ev.src_path }
    ELSE (files \ { ev.src_path }) \cup { ev.dest_path }

\* the change an event reports can happen to these files
CanHappen(files, ev) ==
    \/ ev.is_directory
    \/ ev.event_type = "created" /\ ev.src_path \notin files
    \/ ev.event_type \in { "modified", "deleted" } /\ ev.src_path \in files
    \/ ev.event_type = "moved" /\ ev.src_path \in files /\ ev.dest_path \notin files

\* the watches (scheduled recursively) whose emitter sees an event
Seen(ev) ==
    { r \in Dirs : scheduled[r] > 0 /\ \E p \in EventPaths(ev) : Under(p, r) }

\* what happens to the package files while the server runs: an upload, a
\* removal, a rename, a rewrite, and a directory touched
Happenings ==
    { [event_type |-> "created", is_directory |-> FALSE,
       src_path |-> <<"p", "s", "c">>, dest_path |-> <<>>],
      [event_type |-> "deleted", is_directory |-> FALSE,
       src_path |-> <<"p", "s", "b">>, dest_path |-> <<>>],
      [event_type |-> "moved", is_directory |-> FALSE,
       src_path |-> <<"p", "s", "b">>, dest_path |-> <<"p", "s", "c">>],
      [event_type |-> "modified", is_directory |-> FALSE,
       src_path |-> <<"p", "a">>, dest_path |-> <<>>],
      [event_type |-> "modified", is_directory |-> TRUE,
       src_path |-> <<"p", "s">>, dest_path |-> <<>>] }

\* the digests the request threads ask for
Hashes ==
    { [fpath |-> <<"p", "a">>, algo |-> "md5"],
      [fpath |-> <<"p", "s", "b">>, algo |-> "md5"],
      [fpath |-> <<"p", "s", "b">>, algo |-> "sha256"] }

\* something changes on the filesystem; every watch that covers it queues the event
Change(ev) ==
    /\ CanHappen(fs, ev)
    /\ changes' = changes + 1
    /\ fs' = Apply(fs, ev)
    /\ pending' = [r \in Dirs |->
                     IF r \in Seen(ev) THEN Append(pending[r], ev) ELSE pending[r]]
    /\ UNCHANGED <<cache_state, call_state, pc, frame, locks, calls, runs>>

(***************************************************************************)
(* Specification.                                                          *)
(***************************************************************************)
ListOuts == { [ok |-> TRUE, list |-> l, str |-> ""] : l \in Listings }
                \cup { NoOutcome }

DigestOuts == { [ok |-> TRUE, list |-> <<>>, str |-> d] : d \in Digests }
                  \cup { NoOutcome }

\* the live manager's API and the event thread
Next ==
    \/ \E root \in RootArgs, out \in ListOuts :
          ops < MaxOps /\ Listdir(root, out)
    \/ \E fpath \in FilePaths, algo \in Algos, out \in DigestOuts :
          ops < MaxOps /\ DigestFile(fpath, algo, out)
    \/ \E root \in RootArgs :
          ops < MaxOps /\ InvalidateRootCache(root)
    \/ \E hroot \in Dirs, ev \in Events :
          ops < MaxOps /\ Dispatch(hroot, ev)

\* a manager that found no usable snapshot
InitLive == Init /\ Ready /\ ~using_index_file /\ disk \in { NoFile, CorruptFile }

Spec == InitLive /\ [][Next]_vars

\* a manager serving from a loaded snapshot
NextFrozen ==
    \/ \E root \in RootArgs, out \in ListOuts :
          ops < MaxOps /\ Listdir(root, out)
    \/ \E fpath \in FilePaths, algo \in Algos, out \in DigestOuts :
          ops < MaxOps /\ DigestFile(fpath, algo, out)
    \/ \E hroot \in Dirs, ev \in Events :
          ops < MaxOps /\ Dispatch(hroot, ev)

InitFrozen == Init /\ using_index_file

SpecFrozen == InitFrozen /\ [][NextFrozen]_vars

\* the offline builder followed by a server start
NextBuilder ==
    \/ \E root \in RootArgs, out \in ListOuts :
          ops < MaxBuilderOps /\ ForceUpdate(root, out)
    \/ ops < MaxBuilderOps /\ SetIndexFile
    \/ \E io_ok \in BOOLEAN :
          ops < MaxBuilderOps /\ Serialize(io_ok)
    \/ \E arg \in { NoPath, IndexPath } :
          ops < MaxBuilderOps /\ Construct(arg)
    \/ \E root \in RootArgs, out \in ListOuts :
          ops < MaxBuilderOps /\ Listdir(root, out)

SpecBuilder == Init /\ [][NextBuilder]_vars

\* one manager addressed through force_update, listdir and invalidation
NextKeys ==
    \/ \E root \in RootArgs, out \in ListOuts :
          ops < MaxOps /\ ForceUpdate(root, out)
    \/ \E root \in RootArgs, out \in ListOuts :
          ops < MaxOps /\ Listdir(root, out)
    \/ \E root \in RootArgs :
          ops < MaxOps /\ InvalidateRootCache(root)

SpecKeys == Init /\ [][NextKeys]_vars

\* a live manager built without a snapshot file, its threads outside it
InitThreads == InitLive /\ disk = NoFile /\ last.algo = NoPath

\* thread t executes its next statement inside listdir, digest_file,
\* invalidate_root_cache or the handler
Step(t) ==
    \/ ListdirLock(t)
    \/ WatchLock(t)
    \/ WatchAdd(t)
    \/ \E ok \in BOOLEAN : ListdirProduce(t, ok)
    \/ ListdirUnlock(t)
    \/ DigestLock(t)
    \/ \E ok \in BOOLEAN : DigestProduce(t, ok)
    \/ DigestUnlock(t)
    \/ Invalidate(t)
    \/ DispatchDigests(t)

\* request threads calling listdir, digest_file and invalidate_root_cache
\* while files change and the observer thread dispatches
Arrivals ==
    \/ \E t \in RequestThreads, root \in RootArgs :
          calls < MaxCalls /\ ListdirCall(t, root)
    \/ \E t \in RequestThreads, h \in Hashes :
          calls < MaxCalls /\ DigestCall(t, h.fpath, h.algo)
    \/ \E t \in RequestThreads, root \in RootArgs :
          calls < MaxCalls /\ InvalidateCall(t, root)
    \/ \E ev \in Happenings :
          changes < MaxChanges /\ Change(ev)

NextThreads ==
    \/ Arrivals
    \/ \E hroot \in Dirs : DispatchTake(hroot)
    \/ \E t \in Threads : Step(t)

SpecThreads == InitThreads /\ [][NextThreads]_vars

\* every thread inside a method keeps being scheduled, and so is the observer
Fairness ==
    /\ \A t \in Threads : WF_vars(Step(t))
    /\ WF_vars(\E hroot \in Dirs : DispatchTake(hroot))

SpecThreadsFair == SpecThreads /\ Fairness

\* the same with force_update_listdir_cache among the calls
ForceStep(t) ==
    \/ ForceLock(t)
    \/ \E ok \in BOOLEAN : ForceProduce(t, ok)
    \/ ForceUnlock(t)

NextLocks ==
    \/ Arrivals
    \/ \E t \in RequestThreads, path \in Dirs :
          calls < MaxCalls /\ ForceCall(t, [form |-> "Path", path |-> path])
    \/ \E hroot \in Dirs : DispatchTake(hroot)
    \/ \E t \in Threads : Step(t)
    \/ \E t \in Threads : ForceStep(t)

SpecLocks == InitThreads /\ [][NextLocks]_vars

(***************************************************************************)
(* Properties.  A step is a call: Did(op) says the step just taken was a   *)
(* call of op; unprimed variables are the state the call started from and  *)
(* primed ones the state it left.                                          *)
(***************************************************************************)
Did(op) == ops' = ops + 1 /\ last'.op = op

SameEntry(d1, d2, k) ==
    /\ Has(d1, k) <=> Has(d2, k)
    /\ Has(d1, k) => d1[k] = d2[k]

HasDigest(dc, a, p) == Has(dc, a) /\ Has(dc[a], p)

SameDigest(dc1, dc2, a, p) ==
    /\ HasDigest(dc1, a, p) <=> HasDigest(dc2, a, p)
    /\ HasDigest(dc1, a, p) => dc1[a][p] = dc2[a][p]

\* the paths an event names: source, and destination when it is a move
PathsOf(ev) ==
    { ev.src_path } \cup (IF ev.event_type = "moved" THEN { ev.dest_path } ELSE {})

\* C1: on a live manager listdir(R, P) with no entry under str(R) invokes P
\* exactly once and, when P yields a listing, stores that listing under str(R)
\* and returns it; with an entry under str(R) it returns the stored listing,
\* does not invoke P and leaves the listing map alone.
C1_ListdirMissHit ==
    [][ (Did("listdir") /\ ~using_index_file) =>
          LET key == [form |-> "str", path |-> last'.root.path]
              out == last'.out
          IN  IF key \in DOMAIN listdir_cache
              THEN /\ invoked' = 0
                   /\ ret' = RetList(listdir_cache[key])
                   /\ listdir_cache' = listdir_cache
              ELSE /\ invoked' = 1
                   /\ out.ok =>
                        /\ key \in DOMAIN listdir_cache'
                        /\ listdir_cache'[key] = out.list
                        /\ ret' = RetList(out.list)
      ]_vars

\* C1 witness: a hit for a root passed as a Path object, on an entry that an
\* earlier miss stored, on a manager that has also served a digest_file.
C1_Witness ==
    /\ last.op = "listdir"
    /\ ~using_index_file
    /\ last.root.form = "Path"
    /\ invoked = 0
    /\ ret.kind = "list"
    /\ ret.list = listdir_cache[Str(last.root)]
    /\ \E a \in DOMAIN digest_cache : DOMAIN digest_cache[a] # {}

\* C2: a non-directory event dispatched by the handler of root R leaves no
\* listing entry under R and every other listing entry as it was; a listdir(R)
\* that is the next call after it invokes the producer.
C2_EventDropsListing ==
    [][ /\ (Did("dispatch") /\ ~using_index_file /\ ~last'.ev.is_directory) =>
             /\ last'.root \notin DOMAIN listdir_cache'
             /\ \A k \in (DOMAIN listdir_cache \cup DOMAIN listdir_cache') \ { last'.root } :
                   SameEntry(listdir_cache, listdir_cache', k)
        /\ ( /\ last.op = "dispatch"
             /\ ~last.ev.is_directory
             /\ Did("listdir")
             /\ ~using_index_file
             /\ Str(last'.root) = last.root ) => invoked' = 1
      ]_vars

\* C2 witness: the event dropped an entry that was there, while another
\* root's entry stayed.
C2_Witness ==
    /\ last.op = "dispatch"
    /\ ~using_index_file
    /\ ~last.ev.is_directory
    /\ last.root \in DOMAIN pre.listdir_cache
    /\ last.root \notin DOMAIN listdir_cache
    /\ DOMAIN listdir_cache # {}

\* C3: a non-directory event removes, under every algorithm, exactly the
\* digest entries of the paths it names (source, plus destination of a move);
\* all other digest entries and the set of algorithms are unchanged; a
\* digest_file for one of these paths that is the next call invokes the
\* producer.
C3_EventDropsDigests ==
    [][ /\ (Did("dispatch") /\ ~last'.ev.is_directory) =>
             /\ DOMAIN digest_cache' = DOMAIN digest_cache
             /\ \A a \in DOMAIN digest_cache :
                   /\ DOMAIN digest_cache'[a] =
                          (DOMAIN digest_cache[a]) \ PathsOf(last'.ev)
                   /\ \A p \in DOMAIN digest_cache'[a] :
                          digest_cache'[a][p] = digest_cache[a][p]
        /\ ( /\ last.op = "dispatch"
             /\ ~last.ev.is_directory
             /\ Did("digest_file")
             /\ last'.fpath \in PathsOf(last.ev) ) => invoked' = 1
      ]_vars

\* C3 witness: a move whose destination had a digest that is now gone, while
\* the digest of a third path is still cached.
C3_Witness ==
    /\ last.op = "dispatch"
    /\ ~last.ev.is_directory
    /\ last.ev.event_type = "moved"
    /\ \E a \in DOMAIN pre.digest_cache :
          /\ last.ev.dest_path \in DOMAIN pre.digest_cache[a]
          /\ last.ev.dest_path \notin DOMAIN digest_cache[a]
          /\ \E p \in DOMAIN digest_cache[a] : p \notin PathsOf(last.ev)

\* C4: digest_file(F, A, P) with an entry for (A, F) returns it without
\* invoking P; without one it leaves dirname(F) watched, invokes P exactly
\* once and, when P yields a digest, stores it under (A, F) and returns it.
\* Entries of other (algorithm, path) pairs and the listing map are unchanged.
C4_DigestMissHit ==
    [][ Did("digest_file") =>
          LET F   == last'.fpath
              A   == last'.algo
              out == last'.out
          IN  /\ IF HasDigest(digest_cache, A, F)
                 THEN /\ invoked' = 0
                      /\ ret' = RetStr(digest_cache[A][F])
                 ELSE /\ SubSeq(F, 1, Len(F) - 1) \in watched'
                      /\ invoked' = 1
                      /\ out.ok =>
                           /\ HasDigest(digest_cache', A, F)
                           /\ digest_cache'[A][F] = out.str
                           /\ ret' = RetStr(out.str)
              /\ listdir_cache' = listdir_cache
              /\ \A a \in Algos, p \in FilePaths :
                    <<a, p>> # <<A, F>> =>
                        SameDigest(digest_cache, digest_cache', a, p)
      ]_vars

\* C4 witness: a miss that registered the parent directory, beside an entry
\* of another algorithm that an earlier call had stored.
C4_Witness ==
    /\ last.op = "digest_file"
    /\ invoked = 1
    /\ ret.kind = "str"
    /\ dirname(last.fpath) \in watched \ pre.watched
    /\ digest_cache[last.algo][last.fpath] = ret.str
    /\ \E a \in DOMAIN pre.digest_cache : DOMAIN pre.digest_cache[a] # {}

\* C5: dispatching an event whose directory flag is set changes neither the
\* listing map, nor the digest map, nor the watched set, nor the subscriptions.
C5_DirectoryEventIgnored ==
    [][ (Did("dispatch") /\ last'.ev.is_directory) =>
          /\ listdir_cache' = listdir_cache
          /\ digest_cache' = digest_cache
          /\ watched' = watched
          /\ scheduled' = scheduled
      ]_vars

\* C5 witness: a directory event arrived while the handler's root had a
\* listing entry and the event's source path had a digest.
C5_Witness ==
    /\ last.op = "dispatch"
    /\ last.ev.is_directory
    /\ last.root \in DOMAIN listdir_cache
    /\ \E a \in DOMAIN digest_cache : last.ev.src_path \in DOMAIN digest_cache[a]

\* the listing map the manager loaded at construction
Loaded == PickleLoad(disk.items)

\* C6: in frozen mode listdir(R, P) returns the listing map's entry under R as
\* passed, or an empty result when there is none; it invokes no producer,
\* leaves the watched set and the subscriptions alone, and the manager stays
\* frozen.
C6_FrozenListdir ==
    [][ (Did("listdir") /\ using_index_file) =>
          /\ invoked' = 0
          /\ IF last'.root \in DOMAIN listdir_cache
             THEN ret' = RetList(listdir_cache[last'.root])
             ELSE ret'.kind \in { "list", "dict" } /\ ret'.list = <<>>
          /\ watched' = watched
          /\ scheduled' = scheduled
          /\ listdir_cache' = listdir_cache
          /\ using_index_file'
      ]_vars

\* C6 witness: a frozen listdir for a root that is neither in the listing map
\* nor watched came back empty although its producer would have succeeded,
\* while digest_file had already registered a watch elsewhere.
C6_Witness ==
    /\ last.op = "listdir"
    /\ using_index_file
    /\ last.out.ok
    /\ last.root \notin DOMAIN listdir_cache
    /\ ret.kind = "dict"
    /\ invoked = 0
    /\ watched # {}
    /\ last.root.path \notin watched

\* C7: in frozen mode, with only listdir, digest_file and events happening,
\* listdir(R, P) for a root R of the loaded snapshot returns the snapshot's
\* sequence for R.
C7_SnapshotEntryServed ==
    ( /\ last.op = "listdir"
      /\ using_index_file
      /\ last.root \in DOMAIN Loaded ) => ret = RetList(Loaded[last.root])

\* C8: constructing a manager on the file that serialize has just written
\* yields the same listing map (same keys, same ordered entries) and frozen
\* mode; a frozen manager's listdir invokes no producer.
C8_SnapshotRoundTrip ==
    [][ /\ ( /\ last.op = "serialize_listdir_cache"
             /\ ret.kind # "raise"
             /\ Did("construct")
             /\ last'.algo = IndexPath ) =>
                /\ listdir_cache' = listdir_cache
                /\ using_index_file'
        /\ (Did("listdir") /\ using_index_file) => invoked' = 0
      ]_vars

\* C8 witness: a manager loaded from a file written in this run, holding two
\* roots of which one is keyed by a Path object as the builder passes it.
C8_Witness ==
    /\ last.op = "construct"
    /\ last.algo = IndexPath
    /\ using_index_file
    /\ disk \notin InitDisks
    /\ listdir_cache = pre.listdir_cache
    /\ Cardinality(DOMAIN listdir_cache) >= 2
    /\ \E k \in DOMAIN listdir_cache : k.form = "Path"

\* C9 as stated: a listdir or digest_file whose producer fails leaves the
\* listing map and the whole two-level digest map identical.
C9_FailureLeavesMapsIdentical ==
    [][ ((Did("listdir") \/ Did("digest_file")) /\ ret'.kind = "raise") =>
          /\ listdir_cache' = listdir_cache
          /\ digest_cache' = digest_cache
      ]_vars

\* C9 amended: a listdir or digest_file whose producer fails raises, leaves
\* the listing map and every existing inner digest mapping identical and
\* stores no entry; the only change is that a failed digest_file(F, A, P) adds
\* A as an outer key with an empty inner mapping when A had none.
C9_FailureStoresNothing ==
    [][ ( /\ Did("listdir") \/ Did("digest_file")
          /\ invoked' = 1
          /\ ~last'.out.ok ) =>
            /\ ret' = Raised
            /\ listdir_cache' = listdir_cache
            /\ \A a \in DOMAIN digest_cache :
                  /\ a \in DOMAIN digest_cache'
                  /\ digest_cache'[a] = digest_cache[a]
            /\ \A a \in (DOMAIN digest_cache') \ (DOMAIN digest_cache) :
                  /\ last'.op = "digest_file"
                  /\ a = last'.algo
                  /\ DOMAIN digest_cache'[a] = {}
      ]_vars

\* C9 witness: a failed digest_file for an algorithm seen for the first time,
\* on a manager whose caches already hold a listing and a digest.
C9_Witness ==
    /\ last.op = "digest_file"
    /\ ret = Raised
    /\ last.algo \notin DOMAIN pre.digest_cache
    /\ DOMAIN digest_cache[last.algo] = {}
    /\ DOMAIN listdir_cache # {}
    /\ \E a \in DOMAIN digest_cache : DOMAIN digest_cache[a] # {}

\* C10: invalidate_root_cache(R) leaves no entry under str(R), changes no
\* other listing entry, nothing at all when there was no entry, and neither
\* the digest map nor the watched set nor the subscriptions; it does not
\* raise; a second call right after the first changes nothing.
C10_InvalidateRoot ==
    [][ /\ Did("invalidate_root_cache") =>
             LET key == [form |-> "str", path |-> last'.root.path]
             IN  /\ key \notin DOMAIN listdir_cache'
                 /\ \A k \in (DOMAIN listdir_cache \cup DOMAIN listdir_cache') \ { key } :
                       SameEntry(listdir_cache, listdir_cache', k)
                 /\ key \notin DOMAIN listdir_cache => listdir_cache' = listdir_cache
                 /\ digest_cache' = digest_cache
                 /\ watched' = watched
                 /\ scheduled' = scheduled
                 /\ ret'.kind # "raise"
        /\ ( /\ last.op = "invalidate_root_cache"
             /\ Did("invalidate_root_cache")
             /\ last'.root.path = last.root.path ) => listdir_cache' = listdir_cache
      ]_vars

\* C10 witness: the entry of a root passed as a Path object was removed while
\* another root's entry stayed.
C10_Witness ==
    /\ last.op = "invalidate_root_cache"
    /\ last.root.form = "Path"
    /\ Str(last.root) \in DOMAIN pre.listdir_cache
    /\ Str(last.root) \notin DOMAIN listdir_cache
    /\ DOMAIN listdir_cache # {}

\* C11: a constructor given no path, a missing file or a file that fails to
\* load still returns a manager, with an empty listing map and frozen mode
\* off; frozen mode is on exactly when a given, existing file loaded; on a
\* manager that is not frozen listdir is the live one (a hit is served from
\* the map, a miss registers the watch and invokes the producer).
C11_LoadIsBestEffort ==
    [][ /\ (Did("construct") /\ ENABLE_CACHING) =>
             LET loaded == last'.algo # NoPath /\ disk.exists /\ disk.ok
             IN  /\ ret'.kind # "raise"
                 /\ attrs' = ManagerAttrs
                 /\ using_index_file' <=> loaded
                 /\ ~loaded => DOMAIN listdir_cache' = {}
        /\ (Did("listdir") /\ ~using_index_file) =>
             LET key == [form |-> "str", path |-> last'.root.path]
             IN  IF key \in DOMAIN listdir_cache
                 THEN invoked' = 0 /\ ret' = RetList(listdir_cache[key])
                 ELSE /\ invoked' = 1
                      /\ key.path \in watched'
                      /\ scheduled'[key.path] = 1
                      /\ last'.out.ok => ret' = RetList(last'.out.list)
      ]_vars

\* C11 witness: a live miss on a manager whose constructor was given the
\* path of a file that exists but does not load.
C11_Witness ==
    /\ last.op = "listdir"
    /\ invoked = 1
    /\ ret.kind = "list"
    /\ ~using_index_file
    /\ pkg_index_file = NoPath
    /\ disk = CorruptFile
    /\ last.root.path \in watched

\* C12: when ENABLE_CACHING is off the constructor raises before it has
\* created any attribute (no cache, no lock, no observer, no subscription),
\* and no method is ever called on the object it failed to build.
C12_FailFast ==
    [][ /\ (Did("construct") /\ ~ENABLE_CACHING) =>
             /\ ret' = Raised
             /\ attrs' = {}
             /\ \A r \in Dirs : scheduled'[r] = 0
        /\ (ops' = ops + 1 /\ last'.op # "construct") =>
             (ENABLE_CACHING /\ attrs = ManagerAttrs)
      ]_vars

\* C12 witness: a second construction attempt without watchdog has raised.
C12_Witness ==
    /\ last.op = "construct"
    /\ ~ENABLE_CACHING
    /\ ret = Raised
    /\ attrs = {}
    /\ ops >= 2

\* C16: force_update, listdir and invalidate_root_cache address one entry per
\* root whatever the form of the argument: right after force_update(R, P) a
\* live listdir(R, Q) returns P's result without invoking Q and
\* invalidate_root_cache(R) removes the entry; a frozen listdir(R) finds the
\* entry stored for R's path in either form.
C16_OneKeyPerRoot ==
    [][ /\ ( /\ last.op = "force_update_listdir_cache"
             /\ ret.kind = "list"
             /\ ~using_index_file
             /\ Did("listdir")
             /\ last'.root = last.root ) => (invoked' = 0 /\ ret' = ret)
        /\ ( /\ last.op = "force_update_listdir_cache"
             /\ ret.kind = "list"
             /\ Did("invalidate_root_cache")
             /\ last'.root = last.root ) =>
                \A k \in DOMAIN listdir_cache' : k.path # last.root.path
        /\ ( /\ Did("listdir")
             /\ using_index_file
             /\ \E k \in DOMAIN listdir_cache : k.path = last'.root.path ) =>
                ret'.kind = "list"
      ]_vars

\* the lock a thread is about to take
Waits(t) ==
    IF pc[t] \in { "ld_lock", "inv_lock", "fu_lock" } THEN listdir_lock
    ELSE IF pc[t] \in { "df_lock", "dp_lock" } THEN digest_lock
    ELSE IF pc[t] = "w_lock" THEN watch_lock
    ELSE Free

Blocked(t) == Waits(t) # Free

\* the cached item a thread's call is about
JobOf(t) ==
    IF frame[t].op = "digest_file"
    THEN DigestJob(frame[t].algo, frame[t].fpath)
    ELSE ListJob(frame[t].root.path)

InProducer(t) == pc[t] \in { "ld_produce", "df_produce", "fu_produce" }

\* C13: whatever the interleaving of listdir and digest_file calls, a root is
\* scheduled with the observer at most once, and neither the watched set nor
\* a subscription ever shrinks.
C13_WatchOnce ==
    [][ /\ watched \subseteq watched'
        /\ \A r \in Dirs : scheduled[r] <= scheduled'[r] /\ scheduled'[r] <= 1
      ]_vars

\* C13 witness: a listdir on a root and a digest_file on a file of that root
\* have both passed the watch block, and the root is scheduled once.
C13_Witness ==
    \E t, u \in RequestThreads :
        /\ pc[t] = "ld_produce"
        /\ pc[u] = "df_produce"
        /\ WatchRoot(t) = WatchRoot(u)
        /\ scheduled[WatchRoot(t)] = 1

\* C14: the locks are taken in an order that cannot cycle (the watch lock is
\* innermost, the listing and digest locks are never held together, an idle
\* thread holds nothing), and in no reachable state is every thread that is
\* inside a method waiting for a lock.
C14_NoDeadlock ==
    /\ \A t \in Threads :
          /\ (watch_lock = t) => pc[t] = "w_add"
          /\ ~(listdir_lock = t /\ digest_lock = t)
          /\ (pc[t] = "idle") => (t \notin { listdir_lock, digest_lock, watch_lock })
    /\ (\E t \in Threads : pc[t] # "idle") =>
          (\E t \in Threads : pc[t] # "idle" /\ ~Blocked(t))

\* C14 witness: the observer thread waits for the listing lock that a
\* force_update holds in its producer while a digest_file holds the digest lock.
C14_Witness ==
    /\ pc[EventThread] = "inv_lock"
    /\ \E t, u \in RequestThreads :
          /\ listdir_lock = t /\ pc[t] = "fu_produce"
          /\ digest_lock = u /\ pc[u] = "df_produce"

\* C18: a thread whose listing or digest producer is running does not hold
\* the watch lock, and for listdir and digest_file the root it needs is
\* already in the watched set and scheduled.
C18_ProducerOutsideWatchLock ==
    \A t \in Threads :
        InProducer(t) =>
            /\ watch_lock # t
            /\ (pc[t] # "fu_produce") =>
                  (WatchRoot(t) \in watched /\ scheduled[WatchRoot(t)] >= 1)

\* C18 witness: a listing producer runs while another thread is inside the
\* watch block.
C18_Witness ==
    \E t, u \in RequestThreads :
        /\ pc[t] = "ld_produce"
        /\ watch_lock = u
        /\ u # t

\* C20: every root with a listing entry is in the watched set, and so is the
\* parent directory of every path with a digest entry, in every state the
\* threads can reach through listdir, digest_file, invalidate_root_cache and
\* the handler.
C20_CachedImpliesWatched ==
    /\ \A k \in DOMAIN listdir_cache : k.path \in watched
    /\ \A a \in DOMAIN digest_cache :
          \A f \in DOMAIN digest_cache[a] : dirname(f) \in watched

\* C20 witness: a listing and a digest of two different roots are cached,
\* each root watched.
C20_Witness ==
    /\ Has(listdir_cache, StrKey(<<"p">>))
    /\ HasDigest(digest_cache, "md5", <<"p", "s", "b">>)
    /\ watched = Dirs

\* an event that will still drop root r's listing: queued for r's watch, or
\* taken by the handler and not yet past its invalidate_root_cache
Outstanding(r) ==
    \/ \E i \in 1..Len(pending[r]) : ~pending[r][i].is_directory
    \/ /\ pc[EventThread] = "inv_lock"
       /\ frame[EventThread].root.path = r

Quiescent ==
    /\ \A t \in Threads : pc[t] = "idle"
    /\ \A r \in Dirs : pending[r] = <<>>

\* C17: a listing that listdir cached is the listing the producer would
\* return on the files as they are now, unless an event that drops it is
\* still to be dispatched; so when no call is in flight and no event is left,
\* every cached listing is current.
C17_ListingCurrent ==
    /\ \A r \in Dirs :
          Has(listdir_cache, StrKey(r)) =>
              \/ listdir_cache[StrKey(r)] = ListingOf(fs, r)
              \/ Outstanding(r)
    /\ Quiescent =>
          \A k \in DOMAIN listdir_cache : listdir_cache[k] = ListingOf(fs, k.path)

\* C17 witness: the files changed while a listdir miss was in flight (after
\* its producer ran, before it returned): the listing it cached is out of
\* date and the event is queued for the root's watch.
C17_Witness ==
    \E t \in RequestThreads :
        /\ pc[t] = "ld_unlock"
        /\ frame[t].seen = 0
        /\ frame[t].v.ok
        /\ runs[JobOf(t)].made = 1
        /\ frame[t].v.list # ListingOf(fs, frame[t].root.path)
        /\ pending[frame[t].root.path] # <<>>

\* C19 as claimed: a listdir or digest_file call that began before the
\* item's producer had run at all (so concurrently with the first miss, no
\* invalidation in between) never invokes the producer after another call has.
C19_ProducerOnce ==
    \A t \in RequestThreads :
        (pc[t] \in { "ld_produce", "df_produce" } /\ frame[t].seen = 0) =>
            runs[JobOf(t)].made = 0

\* C19 amended: between two invalidations of an item the producer is invoked
\* again only while every earlier invocation has failed, so at most one
\* invocation's result is stored; the item is cached exactly when one has
\* succeeded, and every call that returns a value returns the stored one.
C19_OneStoredResult ==
    /\ \A r \in Dirs :
          /\ runs[ListJob(r)].good <= 1
          /\ (runs[ListJob(r)].good = 1) <=> Has(listdir_cache, StrKey(r))
    /\ \A h \in Hashes :
          /\ runs[DigestJob(h.algo, h.fpath)].good <= 1
          /\ (runs[DigestJob(h.algo, h.fpath)].good = 1)
                <=> HasDigest(digest_cache, h.algo, h.fpath)
    /\ \A t \in RequestThreads :
          /\ pc[t] \in { "ld_produce", "df_produce" } => runs[JobOf(t)].good = 0
          /\ (pc[t] = "ld_unlock" /\ frame[t].v.ok) =>
                /\ Has(listdir_cache, frame[t].root)
                /\ listdir_cache[frame[t].root] = frame[t].v.list
          /\ (pc[t] = "df_unlock" /\ frame[t].v.ok) =>
                /\ HasDigest(digest_cache, frame[t].algo, frame[t].fpath)
                /\ digest_cache[frame[t].algo][frame[t].fpath] = frame[t].v.str

\* C19 witness: two calls for one uncached root were in flight together; the
\* first one's producer failed, the second invoked its own and returns the
\* listing it stored.
C19_Witness ==
    \E t \in RequestThreads :
        /\ pc[t] = "ld_unlock"
        /\ frame[t].seen = 0
        /\ frame[t].v.ok
        /\ runs[JobOf(t)] = [made |-> 2, good |-> 1]

\* C15: under fair scheduling every call of listdir, digest_file and
\* invalidate_root_cache returns, every dispatch completes and every queued
\* event is dispatched, whether producers return or fail.
C15_EveryCallReturns ==
    /\ \A t \in Threads : (pc[t] # "idle") ~> (pc[t] = "idle")
    /\ \A r \in Dirs : (pending[r] # <<>>) ~> (pending[r] = <<>>)

\* C15 witness: a listing producer has failed under the listing lock while
\* another thread waits for that lock.
C15_Witness ==
    \E t, u \in RequestThreads :
        /\ pc[t] = "ld_unlock"
        /\ ~frame[t].v.ok
        /\ listdir_lock = t
        /\ pc[u] \in { "ld_lock", "inv_lock" }

====
